---- MODULE Spec2Model ----
(***************************************************************************)
(* A model of open_align/core.py: the ORB matcher (_match_orb), the        *)
(* warper (cv.warpAffine as align calls it), the overlap resolver          *)
(* (_common_overlap_rect) and the orchestrator (align).                    *)
(*                                                                         *)
(* Rasters are records [h, w, px] with px a function on <<y, x>>, 0-based  *)
(* as in numpy.  One colour channel stands for the three BGR channels:     *)
(* every operation of the pipeline treats the channels alike.              *)
(***************************************************************************)
EXTENDS Integers, Sequences, FiniteSets, TLC

VARIABLES
    pc,                 \* position in align, or "call"/"return" of a helper under test
    files,              \* align's argument: the input images with what ORB finds in them
    idx,                \* the candidate loop's index (0-based, as in the code)
    sim_transforms_2x3, \* align's list of transforms
    aligned_bgr,        \* align's list of aligned images
    aligned_masks,      \* align's list of validity masks
    results,            \* align's list of PairMatches
    all_ref_indices,    \* Unbound until line 217 has run once
    rect,               \* what line 253 gave: (x, y, w, h), or the exception
    cropped,            \* the list of line 259
    outcome,            \* how the run ended
    visited,            \* history: the candidates the loop has taken, with what happened
    saved,              \* the image files written so far, in order (cv.imwrite)
    fn_in,              \* the arguments of the helper under test
    fn_out              \* its result

vars == <<pc, files, idx, sim_transforms_2x3, aligned_bgr, aligned_masks, results,
          all_ref_indices, rect, cropped, outcome, visited, saved, fn_in, fn_out>>

alignVars == <<files, idx, sim_transforms_2x3, aligned_bgr, aligned_masks, results,
               all_ref_indices, rect, cropped, outcome, visited, saved>>

None == "None"
\* a local variable: not yet assigned, or holding a set
Unbound == [bound |-> FALSE, s |-> {}]
Bound(S) == [bound |-> TRUE, s |-> S]

----------------------------------------------------------------------------
(* Bounds of the model. *)

\* canvas of the overlap-resolver runs on arbitrary masks
MaskW == 3
MaskH == 2
\* invalid pixels in the first mask of such a run
MaxHoles == 2
\* masks in one call of the resolver
MaxMasks == 2
\* largest erode argument tried (align itself passes ALIGN_ERODE)
MaxErode == 2
\* largest side of the all-valid masks
MaxDim == 5

----------------------------------------------------------------------------
(* Rasters. *)

Pixels(h, w) == (0 .. h - 1) \X (0 .. w - 1)

\* np.full((h, w), v, np.uint8)
Full(h, w, v) == [h |-> h, w |-> w, px |-> [p \in Pixels(h, w) |-> v]]

SetMin(S) == CHOOSE m \in S : \A n \in S : m <= n
SetMax(S) == CHOOSE m \in S : \A n \in S : m >= n

RECURSIVE BitAnd(_, _, _)
\* the bitwise AND of two unsigned integers of `bits` bits
BitAnd(a, b, bits) ==
    IF bits = 0 THEN 0
    ELSE (IF a % 2 = 1 /\ b % 2 = 1 THEN 1 ELSE 0) + 2 * BitAnd(a \div 2, b \div 2, bits - 1)

\* cv.bitwise_and on two uint8 rasters of one shape
bitwise_and(a, b) ==
    [h |-> a.h, w |-> a.w, px |-> [p \in Pixels(a.h, a.w) |-> BitAnd(a.px[p], b.px[p], 8)]]

----------------------------------------------------------------------------
(* _common_overlap_rect, core.py 61-100. *)

RECURSIVE AndAll(_, _, _)
\* lines 72-74: common = masks[0]; for m in masks[1:]: common &= m
AndAll(common, masks, i) ==
    IF i > Len(masks) THEN common ELSE AndAll(bitwise_and(common, masks[i]), masks, i + 1)

\* cv_erode with borderValue=0: a window that leaves the image reads 0
cv_erode_zero_border(img, k) ==
    LET a == k \div 2
        Inside(p) == \A dy \in -a .. k - 1 - a, dx \in -a .. k - 1 - a :
                        <<p[1] + dy, p[2] + dx>> \in Pixels(img.h, img.w)
        Window(p) == {q \in Pixels(img.h, img.w) :
                         /\ q[1] - p[1] >= -a /\ q[1] - p[1] <= k - 1 - a
                         /\ q[2] - p[2] >= -a /\ q[2] - p[2] <= k - 1 - a}
    IN  [h |-> img.h, w |-> img.w,
         px |-> [p \in Pixels(img.h, img.w) |->
                    IF Inside(p) THEN SetMin({img.px[q] : q \in Window(p)}) ELSE 0]]

\* cv.erode(common, getStructuringElement(MORPH_RECT, (k, k))), k >= 1: the
\* minimum over the k x k window anchored at (k // 2, k // 2).  The default
\* border of an erosion is the type's maximum, so pixels outside the image
\* never lower the minimum.
cv_erode(img, k) ==
    LET a == k \div 2
        Window(p) == {q \in Pixels(img.h, img.w) :
                         /\ q[1] - p[1] >= -a /\ q[1] - p[1] <= k - 1 - a
                         /\ q[2] - p[2] >= -a /\ q[2] - p[2] <= k - 1 - a}
    IN  [h |-> img.h, w |-> img.w,
         px |-> [p \in Pixels(img.h, img.w) |-> SetMin({img.px[q] : q \in Window(p)})]]

\* two pixels touch (8-connectivity, the default of cv.connectedComponents)
Adjacent(p, q) ==
    /\ p[1] - q[1] \in -1 .. 1
    /\ p[2] - q[2] \in -1 .. 1

RECURSIVE Flood(_, _)
Flood(comp, fg) ==
    LET more == {q \in fg \ comp : \E p \in comp : Adjacent(p, q)}
    IN  IF more = {} THEN comp ELSE Flood(comp \cup more, fg)

\* the first pixel of a set in raster order
RasterFirst(S) ==
    CHOOSE p \in S : \A q \in S : p[1] < q[1] \/ (p[1] = q[1] /\ p[2] <= q[2])

RECURSIVE Label(_, _)
\* cv.connectedComponents: the foreground components, label 1 first; labels
\* follow the raster order of each component's first pixel
Label(fg, acc) ==
    IF fg = {} THEN acc
    ELSE LET comp == Flood({RasterFirst(fg)}, fg)
         IN  Label(fg \ comp, Append(acc, comp))

connectedComponents(img) == Label({p \in Pixels(img.h, img.w) : img.px[p] > 0}, <<>>)

\* the largest count as lines 86-90 find it, but the last label that has it
BestLabelLastOnTie(comps, lbl, best_label, best_count) ==
    LET most == SetMax({Cardinality(comps[l]) : l \in 1 .. Len(comps)})
    IN  SetMax({l \in 1 .. Len(comps) : Cardinality(comps[l]) = most})

RECURSIVE BestLabel(_, _, _, _)
\* lines 86-90: the first label whose count is strictly the largest so far
BestLabel(comps, lbl, best_label, best_count) ==
    IF lbl > Len(comps) THEN best_label
    ELSE IF Cardinality(comps[lbl]) > best_count
         THEN BestLabel(comps, lbl + 1, lbl, Cardinality(comps[lbl]))
         ELSE BestLabel(comps, lbl + 1, best_label, best_count)

\* BoundingRect taking the right and bottom edges for the width and height
BoundingRectSizeFromOrigin(S) ==
    LET x0 == SetMin({p[2] : p \in S})
        x1 == SetMax({p[2] : p \in S}) + 1
        y0 == SetMin({p[1] : p \in S})
        y1 == SetMax({p[1] : p \in S}) + 1
    IN  [ok |-> TRUE, x |-> x0, y |-> y0, w |-> x1, h |-> y1]

\* BoundingRect without the + 1 of lines 97-98
BoundingRectNoPlusOne(S) ==
    LET x0 == SetMin({p[2] : p \in S})
        x1 == SetMax({p[2] : p \in S})
        y0 == SetMin({p[1] : p \in S})
        y1 == SetMax({p[1] : p \in S})
    IN  [ok |-> TRUE, x |-> x0, y |-> y0, w |-> x1 - x0, h |-> y1 - y0]

\* lines 94-100: the bounding rectangle of a pixel set
BoundingRect(S) ==
    LET x0 == SetMin({p[2] : p \in S})
        x1 == SetMax({p[2] : p \in S}) + 1
        y0 == SetMin({p[1] : p \in S})
        y1 == SetMax({p[1] : p \in S}) + 1
    IN  [ok |-> TRUE, x |-> x0, y |-> y0, w |-> x1 - x0, h |-> y1 - y0]

Raise(e) == [ok |-> FALSE, err |-> e]

\* lines 76-79
ErodeStep(common, erode) == IF erode > 0 THEN cv_erode(common, erode) ELSE common

\* the resolver falling back to the whole canvas when nothing is left
OverlapOrWholeCanvas(masks, erode) ==
    IF Len(masks) = 0 THEN Raise("ValueError: No masks provided.")
    ELSE LET common == ErodeStep(AndAll(masks[1], masks, 2), erode)
             comps  == connectedComponents(common)
         IN  IF Len(comps) + 1 <= 1
             THEN [ok |-> TRUE, x |-> 0, y |-> 0, w |-> common.w, h |-> common.h]
             ELSE BoundingRect(comps[BestLabel(comps, 1, 1, 0)])

_common_overlap_rect(masks, erode) ==
    IF Len(masks) = 0 THEN Raise("ValueError: No masks provided.")
    ELSE LET common == ErodeStep(AndAll(masks[1], masks, 2), erode)
             comps  == connectedComponents(common)
         IN  IF Len(comps) + 1 <= 1
             THEN Raise("RuntimeError: No common overlap found across images.")
             ELSE LET largest == comps[BestLabel(comps, 1, 1, 0)]
                  IN  IF largest = {}
                      THEN Raise("RuntimeError: Common overlap empty after processing.")
                      ELSE BoundingRect(largest)

----------------------------------------------------------------------------
(* The overlap resolver on its own: SpecOverlap calls it once on each input. *)

\* erode=50, line 253
ALIGN_ERODE == 50

\* the erode arguments tried: none, the small ones, and align's
ErodeArgs == (-1 .. MaxErode) \cup {ALIGN_ERODE}

\* a mask that is 255 except on `holes`
HoleMask(h, w, holes) ==
    [h |-> h, w |-> w, px |-> [p \in Pixels(h, w) |-> IF p \in holes THEN 0 ELSE 255]]

HoleMasks ==
    {HoleMask(MaskH, MaskW, holes) :
        holes \in {S \in SUBSET Pixels(MaskH, MaskW) : Cardinality(S) <= MaxHoles}}

\* masks valid from column k on: what a shift to the right leaves valid
\* (k = 0 is the all-valid mask, k = MaskW the all-invalid one)
CutMasks ==
    {HoleMask(MaskH, MaskW, {p \in Pixels(MaskH, MaskW) : p[2] < k}) : k \in 0 .. MaskW}

\* a MaskH x MaxDim mask with column k invalid: two regions side by side
ColumnMasks ==
    {HoleMask(MaskH, MaxDim, {p \in Pixels(MaskH, MaxDim) : p[2] = k}) : k \in 0 .. MaxDim - 1}

\* a column mask with at most one more invalid pixel
SplitMasks ==
    {[m EXCEPT !.px = [p \in Pixels(MaskH, MaxDim) |-> IF p \in holes THEN 0 ELSE m.px[p]]] :
        m \in ColumnMasks,
        holes \in {S \in SUBSET Pixels(MaskH, MaxDim) : Cardinality(S) <= 1}}

\* a split mask alone, or with a column mask after it
SplitLists == {<<m>> : m \in SplitMasks} \cup {<<m, c>> : m \in SplitMasks, c \in ColumnMasks}

RECURSIVE MaskLists(_)
\* the mask lists of length n: any first mask, cut masks after it
MaskLists(n) ==
    IF n = 0 THEN {<<>>}
    ELSE IF n = 1 THEN {<<m>> : m \in HoleMasks}
    ELSE {Append(s, c) : s \in MaskLists(n - 1), c \in CutMasks}

\* n all-valid masks of one shape
FullLists ==
    {[i \in 1 .. n |-> Full(h, w, 255)] : n \in 1 .. MaxMasks, h \in 1 .. MaxDim, w \in 1 .. MaxDim}

OverlapInputs == UNION {MaskLists(n) : n \in 0 .. MaxMasks} \cup FullLists \cup SplitLists

AlignIdle ==
    /\ files = <<>>
    /\ idx = 0
    /\ sim_transforms_2x3 = <<>>
    /\ aligned_bgr = <<>>
    /\ aligned_masks = <<>>
    /\ results = <<>>
    /\ all_ref_indices = Unbound
    /\ rect = Raise("not computed")
    /\ cropped = <<>>
    /\ outcome = [state |-> "Running", code |-> -1]
    /\ visited = <<>>
    /\ saved = <<>>

InitOverlap ==
    /\ pc = "call"
    /\ \E masks \in OverlapInputs, erode \in ErodeArgs :
          fn_in = [fn |-> "_common_overlap_rect", masks |-> masks, erode |-> erode]
    /\ fn_out = None
    /\ AlignIdle

CallOverlap ==
    /\ pc = "call"
    /\ fn_in.fn = "_common_overlap_rect"
    /\ fn_out' = _common_overlap_rect(fn_in.masks, fn_in.erode)
    /\ pc' = "return"
    /\ UNCHANGED <<fn_in, alignVars>>

NextOverlap == CallOverlap

SpecOverlap == InitOverlap /\ [][NextOverlap]_vars

(***************************************************************************)
(* Properties of the overlap resolver, checked under SpecOverlap.          *)
(***************************************************************************)

Returned == pc = "return" /\ fn_in.fn = "_common_overlap_rect"

\* the pixels of a returned rectangle
RectPixels(r) == {p \in (r.y .. r.y + r.h - 1) \X (r.x .. r.x + r.w - 1) : TRUE}

InputMasks == {fn_in.masks[i] : i \in 1 .. Len(fn_in.masks)}

AllFullyValid ==
    /\ Len(fn_in.masks) >= 1
    /\ \A m \in InputMasks : \A p \in Pixels(m.h, m.w) : m.px[p] = 255

FullRect == [ok |-> TRUE, x |-> 0, y |-> 0, w |-> fn_in.masks[1].w, h |-> fn_in.masks[1].h]

\* C4: whenever the resolver returns a rectangle, every pixel inside it is
\* valid (255) in every input mask.
C4_RectValidInEveryMask ==
    (Returned /\ fn_out.ok) =>
        \A m \in InputMasks : \A p \in RectPixels(fn_out) : m.px[p] = 255

\* C6: for a non-empty list of all-valid W x H masks and erode = 0 the
\* resolver returns exactly (0, 0, W, H).
C6_FullMasksNoErosion ==
    (Returned /\ AllFullyValid /\ fn_in.erode = 0) => fn_out = FullRect

C6_Witness ==
    /\ Returned /\ AllFullyValid /\ fn_in.erode = 0
    /\ Len(fn_in.masks) >= 2
    /\ fn_in.masks[1].w >= 3 /\ fn_in.masks[1].h >= 2
    /\ fn_out.ok

\* the inset of a returned rectangle on each side is within one pixel of r
InsetAbout(r, W, H, out) ==
    /\ out.x - r \in -1 .. 1
    /\ out.y - r \in -1 .. 1
    /\ (W - (out.x + out.w)) - r \in -1 .. 1
    /\ (H - (out.y + out.h)) - r \in -1 .. 1

----------------------------------------------------------------------------
(* _match_orb, core.py 31-39.  A descriptor is a bit string, here a number; *)
(* the matcher compares descriptors by Hamming distance.                    *)

\* descriptors in one reference set, and in one candidate set
MaxRefDesc == 3
MaxCandDesc == 3

\* the descriptors tried: pairwise Hamming distances 1, 2 and 3
SampleDescriptors == {0, 1, 3, 7}
DescriptorBits == 3

\* ratio = 0.75 (line 31, and line 163) as a fraction
RATIO_NUM == 3
RATIO_DEN == 4

RECURSIVE Hamming(_, _, _)
\* cv.NORM_HAMMING: the number of differing bits
Hamming(a, b, bits) ==
    IF bits = 0 THEN 0
    ELSE (IF a % 2 # b % 2 THEN 1 ELSE 0) + Hamming(a \div 2, b \div 2, bits - 1)

dist(a, b) == Hamming(a, b, DescriptorBits)

\* the nearest train index (1-based) outside `taken`: the least distance,
\* and the earliest index among equals
Nearest(ds, taken) ==
    CHOOSE j \in DOMAIN ds \ taken :
        \A k \in DOMAIN ds \ taken : ds[j] < ds[k] \/ (ds[j] = ds[k] /\ j <= k)

DMatch(i, j, d) == [queryIdx |-> i, trainIdx |-> j, distance |-> d]

\* bf.knnMatch(d1, d2, k=2), line 34: for query i (1-based here, 0-based in
\* the DMatch) its nearest train descriptors, at most two
knnMatch(d1, d2, i) ==
    LET ds == [j \in 1 .. Len(d2) |-> dist(d1[i], d2[j])]
        m  == Nearest(ds, {})
    IN  IF Len(d2) < 2
        THEN <<DMatch(i - 1, m - 1, ds[m])>>
        ELSE LET n == Nearest(ds, {m})
             IN  <<DMatch(i - 1, m - 1, ds[m]), DMatch(i - 1, n - 1, ds[n])>>

\* line 37 with <= for <
RatioTestLoose(m, n) == RATIO_DEN * m.distance <= RATIO_NUM * n.distance

\* line 37: m.distance < ratio * n.distance
RatioTest(m, n) == RATIO_DEN * m.distance < RATIO_NUM * n.distance

RECURSIVE MatchLoop(_, _, _, _)
\* lines 35-39
MatchLoop(d1, d2, i, good) ==
    IF i > Len(d1) THEN good
    ELSE LET mn == knnMatch(d1, d2, i)
         IN  IF RatioTest(mn[1], mn[2])
             THEN MatchLoop(d1, d2, i + 1, Append(good, mn[1]))
             ELSE MatchLoop(d1, d2, i + 1, good)

\* `for m, n in knn` needs two matches for each query descriptor
_match_orb(d1, d2) ==
    IF Len(d1) > 0 /\ Len(d2) < 2
    THEN Raise("ValueError: not enough values to unpack")
    ELSE [ok |-> TRUE, good |-> MatchLoop(d1, d2, 1, <<>>)]

DescLists(lo, hi) ==
    UNION {[1 .. n -> SampleDescriptors] : n \in lo .. hi}

InitMatch ==
    /\ pc = "call"
    /\ \E d1 \in DescLists(0, MaxRefDesc), d2 \in DescLists(1, MaxCandDesc) :
          fn_in = [fn |-> "_match_orb", d1 |-> d1, d2 |-> d2]
    /\ fn_out = None
    /\ AlignIdle

CallMatch ==
    /\ pc = "call"
    /\ fn_in.fn = "_match_orb"
    /\ fn_out' = _match_orb(fn_in.d1, fn_in.d2)
    /\ pc' = "return"
    /\ UNCHANGED <<fn_in, alignVars>>

NextMatch == CallMatch

SpecMatch == InitMatch /\ [][NextMatch]_vars

(***************************************************************************)
(* Properties of the matcher, checked under SpecMatch.                     *)
(***************************************************************************)

Matched == pc = "return" /\ fn_in.fn = "_match_orb" /\ fn_out.ok

\* the distances from reference descriptor i to the candidates other than j
OtherDistances(i, j) ==
    {dist(fn_in.d1[i], fn_in.d2[k]) : k \in (1 .. Len(fn_in.d2)) \ {j}}

\* candidate j is the nearest to reference descriptor i, and nearer than
\* ratio times every other candidate's distance
PassesRatio(i, j) ==
    \A d \in OtherDistances(i, j) : RATIO_DEN * dist(fn_in.d1[i], fn_in.d2[j]) < RATIO_NUM * d

\* the nearest distance equals the second-nearest
TiedBest(i) ==
    \E j, k \in 1 .. Len(fn_in.d2) :
        /\ j # k
        /\ dist(fn_in.d1[i], fn_in.d2[j]) = dist(fn_in.d1[i], fn_in.d2[k])
        /\ \A l \in 1 .. Len(fn_in.d2) : dist(fn_in.d1[i], fn_in.d2[j]) <= dist(fn_in.d1[i], fn_in.d2[l])

\* C8: the matcher returns, in reference index order, exactly one
\* correspondence (to the nearest candidate) for each reference descriptor
\* whose nearest distance is strictly less than ratio times its
\* second-nearest, and none for any other; a reference descriptor whose best
\* and second-best distances are equal is rejected.
C8_RatioTestMatches ==
    Matched =>
        LET good == fn_out.good
            n1   == Len(fn_in.d1)
        IN  /\ \A a, b \in 1 .. Len(good) : a < b => good[a].queryIdx < good[b].queryIdx
            /\ \A i \in 1 .. n1 :
                  (\E j \in 1 .. Len(fn_in.d2) : PassesRatio(i, j))
                      <=> (\E a \in 1 .. Len(good) : good[a].queryIdx = i - 1)
            /\ \A a \in 1 .. Len(good) :
                  /\ good[a].queryIdx \in 0 .. n1 - 1
                  /\ good[a].trainIdx \in 0 .. Len(fn_in.d2) - 1
                  /\ PassesRatio(good[a].queryIdx + 1, good[a].trainIdx + 1)
                  /\ good[a].distance =
                        dist(fn_in.d1[good[a].queryIdx + 1], fn_in.d2[good[a].trainIdx + 1])
            /\ \A i \in 1 .. n1 :
                  TiedBest(i) => \A a \in 1 .. Len(good) : good[a].queryIdx # i - 1

\* two correspondences to one candidate, and a tied descriptor rejected
C8_Witness ==
    /\ Matched
    /\ Len(fn_in.d1) = 3
    /\ Len(fn_out.good) = 2
    /\ fn_out.good[1].trainIdx = fn_out.good[2].trainIdx
    /\ \E i \in 1 .. 3 : TiedBest(i)

----------------------------------------------------------------------------
(* cv.warpAffine as align calls it, core.py 185-199.                       *)
(*                                                                         *)
(* A similarity transform [[a, -b, tx], [b, a, ty]] is the record          *)
(* [a, b, tx2, ty2] with integer a, b and the translation in half pixels   *)
(* (tx = tx2 / 2).  warpAffine maps each destination pixel back through    *)
(* the inverse transform, so a source coordinate is a fraction over        *)
(* 2 * (a*a + b*b); the fractions met here are exact in OpenCV's fixed     *)
(* point (1/32 pixel, 15-bit weights).                                     *)

\* np.float32([[1,0,0],[0,1,0]]), line 142
Identity == [a |-> 1, b |-> 0, tx2 |-> 0, ty2 |-> 0]

\* the transforms the estimator may return in this model
Transforms ==
    { Identity,
      [a |-> 1, b |-> 0, tx2 |-> 2,  ty2 |-> 0],    \* one pixel to the right
      [a |-> 1, b |-> 0, tx2 |-> 1,  ty2 |-> 0],    \* half a pixel to the right
      [a |-> 1, b |-> 0, tx2 |-> -2, ty2 |-> 2],    \* one left, one down
      [a |-> 1, b |-> 0, tx2 |-> 20, ty2 |-> 0],    \* off the canvas
      [a |-> 0, b |-> 1, tx2 |-> 2,  ty2 |-> 0],    \* a quarter turn
      [a |-> 1, b |-> 1, tx2 |-> 2,  ty2 |-> -2] }  \* 45 degrees, scale sqrt 2

Den(M) == 2 * (M.a * M.a + M.b * M.b)

\* numerators of the source coordinates of destination pixel (y, x)
SrcX(M, y, x) == M.a * (2 * x - M.tx2) + M.b * (2 * y - M.ty2)
SrcY(M, y, x) == M.a * (2 * y - M.ty2) - M.b * (2 * x - M.tx2)

\* src(y, x), or the constant border 0 outside the image
At(src, y, x) == IF <<y, x>> \in Pixels(src.h, src.w) THEN src.px[<<y, x>>] ELSE 0

\* INTER_LINEAR: the four neighbours weighted by the fractional parts,
\* rounded half up
SampleLinear(src, M, y, x) ==
    LET d  == Den(M)
        x0 == SrcX(M, y, x) \div d
        y0 == SrcY(M, y, x) \div d
        fx == SrcX(M, y, x) % d
        fy == SrcY(M, y, x) % d
        acc == (d - fy) * (d - fx) * At(src, y0, x0)
             + (d - fy) * fx       * At(src, y0, x0 + 1)
             + fy       * (d - fx) * At(src, y0 + 1, x0)
             + fy       * fx       * At(src, y0 + 1, x0 + 1)
    IN  (2 * acc + d * d) \div (2 * d * d)

\* INTER_NEAREST: the pixel at the source coordinate rounded half up
SampleNearest(src, M, y, x) ==
    LET d == Den(M)
    IN  At(src, (2 * SrcY(M, y, x) + d) \div (2 * d), (2 * SrcX(M, y, x) + d) \div (2 * d))

\* warpAffine reading one pixel to the right of the source coordinate
warpLinearShifted(src, M, w, h) ==
    [h |-> h, w |-> w,
     px |-> [p \in Pixels(h, w) |-> SampleLinear(src, M, p[1], p[2] + 1)]]

\* cv.warpAffine(src, M, (w, h), flags=INTER_LINEAR, borderValue=0), 185-190
warpLinear(src, M, w, h) ==
    [h |-> h, w |-> w,
     px |-> [p \in Pixels(h, w) |-> SampleLinear(src, M, p[1], p[2])]]

\* the mask warped with INTER_LINEAR, as the image is
warpMaskLinear(src, M, w, h) ==
    [h |-> h, w |-> w,
     px |-> [p \in Pixels(h, w) |-> SampleLinear(src, M, p[1], p[2])]]

\* cv.warpAffine(src, M, (w, h), flags=INTER_NEAREST, borderValue=0), 194-199
warpNearest(src, M, w, h) ==
    [h |-> h, w |-> w,
     px |-> [p \in Pixels(h, w) |-> SampleNearest(src, M, p[1], p[2])]]

\* the image warped with M_sim but its mask left where the source was
warpMaskNotMoved(bgr, M, w_ref, h_ref) ==
    [aligned     |-> warpLinear(bgr, M, w_ref, h_ref),
     warped_mask |-> warpNearest(Full(bgr.h, bgr.w, 255), Identity, w_ref, h_ref)]

\* lines 185-199: the warped image and the warped all-255 mask of its shape
warp(bgr, M, w_ref, h_ref) ==
    [aligned     |-> warpLinear(bgr, M, w_ref, h_ref),
     warped_mask |-> warpNearest(Full(bgr.h, bgr.w, 255), M, w_ref, h_ref)]

\* largest side of an image
MaxSide == 2

\* an image whose pixels all differ: base plus a step per column and per row
Gradient(h, w, base) ==
    [h |-> h, w |-> w, px |-> [p \in Pixels(h, w) |-> (base + 60 * p[1] + 25 * p[2]) % 256]]

Images ==
    {Gradient(h, w, base) : h \in 1 .. MaxSide, w \in 1 .. MaxSide, base \in {0, 90, 200}}

InitWarp ==
    /\ pc = "call"
    /\ \E img \in Images, M \in Transforms, w \in 1 .. MaxSide, h \in 1 .. MaxSide :
          fn_in = [fn |-> "warp", image |-> img, M |-> M, w |-> w, h |-> h]
    /\ fn_out = None
    /\ AlignIdle

CallWarp ==
    /\ pc = "call"
    /\ fn_in.fn = "warp"
    /\ fn_out' = warp(fn_in.image, fn_in.M, fn_in.w, fn_in.h)
    /\ pc' = "return"
    /\ UNCHANGED <<fn_in, alignVars>>

NextWarp == CallWarp

SpecWarp == InitWarp /\ [][NextWarp]_vars

(***************************************************************************)
(* Properties of the warper, checked under SpecWarp.                       *)
(***************************************************************************)

Warped == pc = "return" /\ fn_in.fn = "warp"

IdentityOnOwnCanvas ==
    /\ fn_in.M = Identity
    /\ fn_in.w = fn_in.image.w
    /\ fn_in.h = fn_in.image.h

\* C9: warping a W x H image with the identity transform onto a W x H
\* canvas reproduces every source pixel and gives a mask that is 255
\* everywhere.
C9_IdentityWarp ==
    (Warped /\ IdentityOnOwnCanvas) =>
        /\ fn_out.aligned = fn_in.image
        /\ fn_out.warped_mask = Full(fn_in.h, fn_in.w, 255)

C9_Witness ==
    /\ Warped /\ IdentityOnOwnCanvas
    /\ fn_in.w = 2 /\ fn_in.h = 2
    /\ fn_out.aligned.px[<<1, 1>>] = fn_in.image.px[<<1, 1>>]
    /\ fn_out.aligned.px[<<0, 1>>] # fn_out.aligned.px[<<1, 0>>]
    /\ fn_out.warped_mask.px[<<1, 1>>] = 255

----------------------------------------------------------------------------
(* align, core.py 103-273.                                                 *)
(*                                                                         *)
(* An input file is a record: is_file (line 112), decodes (cv.imread       *)
(* gives an image, not None), img, and what ORB finds in the image: nkp    *)
(* keypoints and, unless desc_none, one descriptor per keypoint in desc.   *)

\* files in one run
MaxFiles == 3

File(img, desc) ==
    [is_file |-> TRUE, decodes |-> TRUE, img |-> img,
     nkp |-> Len(desc), desc_none |-> Len(desc) = 0, desc |-> desc]

NoImage == Full(0, 0, 0)

Missing ==
    [is_file |-> FALSE, decodes |-> FALSE, img |-> NoImage,
     nkp |-> 0, desc_none |-> TRUE, desc |-> <<>>]
Unreadable ==
    [is_file |-> TRUE, decodes |-> FALSE, img |-> NoImage,
     nkp |-> 0, desc_none |-> TRUE, desc |-> <<>>]
\* a solid colour: no corners, and ORB gives no descriptors
Blank      == File(Full(2, 2, 200), <<>>)
\* seven keypoints
Few        == File(Gradient(2, 2, 90), <<0, 7, 1, 6, 3, 4, 2>>)
\* eight distinct descriptors
RichA      == File(Gradient(2, 2, 0), <<0, 7, 1, 6, 3, 4, 2, 5>>)
\* nine, the first and the last alike; a wider image
RichB      == File(Gradient(2, 3, 90), <<0, 7, 1, 6, 3, 4, 2, 5, 0>>)
\* eight in two clusters: every match to it is ambiguous; a smaller image
RichD      == File(Gradient(1, 2, 200), <<0, 0, 0, 0, 7, 7, 7, 7>>)

FileKinds == {Missing, Unreadable, Blank, Few, RichA, RichB, RichD}

FileLists == UNION {[1 .. n -> FileKinds] : n \in 0 .. MaxFiles}

\* how a run ends: typer.Exit(code), a return (code 0), or an exception no
\* handler catches (the interpreter exits with 1)
Exit(state, code) == [state |-> state, code |-> code]

Running == Exit("Running", -1)

\* x, y, w, h before line 253 has run
NotComputed == Raise("not computed")

\* line 163 for every pair of descriptor sets of the files above, worked
\* out once: good_of[d1, d2] = _match_orb(d1, d2)
good_of ==
    LET D == {f.desc : f \in {g \in FileKinds : g.nkp >= 2}}
    IN  [d1 \in D, d2 \in D |-> _match_orb(d1, d2).good]

\* the threshold of lines 134 and 159 one too low
InsufficientFeaturesBelow7(f) == f.desc_none \/ f.nkp < 7

\* lines 134 and 159: desc is None or len(kp) < 8
InsufficientFeatures(f) == f.desc_none \/ f.nkp < 8

\* `break` for the `continue` of lines 161 and 175
AfterSkipBreak(i, n) == n

\* `continue`, lines 161 and 175: on to the next index of range(1, len(imgs))
AfterSkip(i, n) == i + 1

\* cv.estimateAffinePartial2D on n point pairs, lines 46-52: the transforms
\* it may return; two pairs are the least that determine one
Estimates(n) == IF n < 2 THEN {} ELSE Transforms

\* lines 53-54: it may return None on any input, and then
\* _estimate_similarity raises RuntimeError
MayRaise(n) == TRUE

\* the record of lines 206-215 naming the reference as the matched image
PairMatchesOfReference(i, ref, cand, good) ==
    [ref_path |-> 0, img_path |-> 0,
     n_ref_kp |-> ref.nkp, n_img_kp |-> cand.nkp,
     n_good |-> Len(good), good_matches |-> good]

\* lines 206-215: the PairMatches of candidate i; a path is the file's index
PairMatches(i, ref, cand, good) ==
    [ref_path |-> 0, img_path |-> i,
     n_ref_kp |-> ref.nkp, n_img_kp |-> cand.nkp,
     n_good |-> Len(good), good_matches |-> good]

\* a file written by cv.imwrite: aligned_003.png is ("aligned", 3)
Written(name, n, img) == [name |-> name, n |-> n, img |-> img]

\* the loops of lines 243-249 and 262-268 numbering the files from 1
SaveAllFromOne(name, imgs) == [i \in 1 .. Len(imgs) |-> Written(name, i, imgs[i])]

\* lines 243-249 and 262-268: for i, img in enumerate(imgs): imwrite(name_i)
SaveAll(name, imgs) == [i \in 1 .. Len(imgs) |-> Written(name, i - 1, imgs[i])]

\* lines 217-220: the reference indices of every match of every result
AllRefIndices(res) ==
    UNION {{res[r].good_matches[m].queryIdx : m \in 1 .. Len(res[r].good_matches)} :
              r \in 1 .. Len(res)}

InitAlign ==
    /\ pc = "validate"
    /\ files \in FileLists
    /\ idx = 0
    /\ sim_transforms_2x3 = <<>>
    /\ aligned_bgr = <<>>
    /\ aligned_masks = <<>>
    /\ results = <<>>
    /\ all_ref_indices = Unbound
    /\ rect = NotComputed
    /\ cropped = <<>>
    /\ outcome = Running
    /\ visited = <<>>
    /\ saved = <<>>
    /\ fn_in = None
    /\ fn_out = None

Finish(o) == pc' = "end" /\ outcome' = o

\* lines 108-119
ValidatePaths ==
    /\ pc = "validate"
    /\ IF \E i \in 1 .. Len(files) : ~files[i].is_file
       THEN Finish(Exit("FileNotFound", 1))
       ELSE IF Len(files) < 2
       THEN Finish(Exit("TooFewImages", 1))
       ELSE pc' = "load" /\ UNCHANGED outcome
    /\ UNCHANGED <<files, idx, sim_transforms_2x3, aligned_bgr, aligned_masks, results,
                   all_ref_indices, rect, cropped, visited, saved, fn_in, fn_out>>

\* lines 121-128
LoadImages ==
    /\ pc = "load"
    /\ IF \E i \in 1 .. Len(files) : ~files[i].decodes
       THEN Finish(Exit("ReadError", 1))
       ELSE pc' = "reference" /\ UNCHANGED outcome
    /\ UNCHANGED <<files, idx, sim_transforms_2x3, aligned_bgr, aligned_masks, results,
                   all_ref_indices, rect, cropped, visited, saved, fn_in, fn_out>>

\* lines 130-153
DetectReference ==
    /\ pc = "reference"
    /\ IF InsufficientFeatures(files[1])
       THEN /\ Finish(Exit("ReferenceInvalid", 1))
            /\ UNCHANGED <<idx, sim_transforms_2x3, aligned_bgr, aligned_masks>>
       ELSE /\ sim_transforms_2x3' = <<Identity>>
            /\ aligned_bgr' = <<files[1].img>>
            /\ aligned_masks' = <<Full(files[1].img.h, files[1].img.w, 255)>>
            /\ idx' = 1
            /\ pc' = "loop"
            /\ UNCHANGED outcome
    /\ UNCHANGED <<files, results, all_ref_indices, rect, cropped, visited, saved, fn_in, fn_out>>

\* the candidate of this iteration (the code's imgs[idx])
Candidate == files[idx + 1]

InLoop == pc = "loop" /\ idx < Len(files)

\* lines 155-161: too few features, skip
SkipCandidate ==
    /\ InLoop
    /\ InsufficientFeatures(Candidate)
    /\ visited' = Append(visited, [idx |-> idx, what |-> "skipped"])
    /\ idx' = AfterSkip(idx, Len(files))
    /\ UNCHANGED <<pc, files, sim_transforms_2x3, aligned_bgr, aligned_masks, results,
                   all_ref_indices, rect, cropped, outcome, saved, fn_in, fn_out>>

\* lines 155-175: matched, but the estimator gives no transform
EstimationFailed ==
    /\ InLoop
    /\ ~InsufficientFeatures(Candidate)
    /\ LET good == good_of[files[1].desc, Candidate.desc]
       IN  MayRaise(Len(good))
    /\ visited' = Append(visited, [idx |-> idx, what |-> "failed"])
    /\ idx' = AfterSkip(idx, Len(files))
    /\ UNCHANGED <<pc, files, sim_transforms_2x3, aligned_bgr, aligned_masks, results,
                   all_ref_indices, rect, cropped, outcome, saved, fn_in, fn_out>>

\* lines 155-220: matched, estimated, warped and recorded
AlignCandidate ==
    /\ InLoop
    /\ ~InsufficientFeatures(Candidate)
    /\ LET good == good_of[files[1].desc, Candidate.desc]
       IN  \E M_sim \in Estimates(Len(good)) :
              LET out == warp(Candidate.img, M_sim, files[1].img.w, files[1].img.h)
                  res == Append(results, PairMatches(idx, files[1], Candidate, good))
              IN  /\ aligned_bgr' = Append(aligned_bgr, out.aligned)
                  /\ aligned_masks' = Append(aligned_masks, out.warped_mask)
                  /\ sim_transforms_2x3' = Append(sim_transforms_2x3, M_sim)
                  /\ results' = res
                  /\ all_ref_indices' = Bound(AllRefIndices(res))
    /\ visited' = Append(visited, [idx |-> idx, what |-> "aligned"])
    /\ idx' = idx + 1
    /\ UNCHANGED <<pc, files, rect, cropped, outcome, saved, fn_in, fn_out>>

\* line 222 reading all_ref_indices as if it were bound before the loop
AfterLoopAlwaysBound ==
    /\ pc = "loop"
    /\ idx >= Len(files)
    /\ pc' = "overlap"
    /\ UNCHANGED <<files, idx, sim_transforms_2x3, aligned_bgr, aligned_masks, results,
                   all_ref_indices, rect, cropped, outcome, visited, saved, fn_in, fn_out>>

\* lines 222-249, after the loop: reading all_ref_indices before any
\* iteration has assigned it raises UnboundLocalError; when it is not empty
\* the reference with its matched keypoints and the aligned images are
\* written (the drawn keypoints and a failing imwrite are not modelled)
AfterLoop ==
    /\ pc = "loop"
    /\ idx >= Len(files)
    /\ IF ~all_ref_indices.bound
       THEN Finish(Exit("UnboundLocalError", 1)) /\ UNCHANGED saved
       ELSE /\ pc' = "overlap"
            /\ UNCHANGED outcome
            /\ saved' = IF all_ref_indices.s # {}
                        THEN saved \o <<Written("ref_matches_all", 0, files[1].img)>>
                                   \o SaveAll("aligned", aligned_bgr)
                        ELSE saved
    /\ UNCHANGED <<files, idx, sim_transforms_2x3, aligned_bgr, aligned_masks, results,
                   all_ref_indices, rect, cropped, visited, fn_in, fn_out>>

\* lines 251-257
ComputeOverlap ==
    /\ pc = "overlap"
    /\ rect' = _common_overlap_rect(aligned_masks, ALIGN_ERODE)
    /\ IF rect'.ok
       THEN pc' = "crop" /\ UNCHANGED outcome
       ELSE Finish(Exit("OverlapNotFound", 3))
    /\ UNCHANGED <<files, idx, sim_transforms_2x3, aligned_bgr, aligned_masks, results,
                   all_ref_indices, cropped, visited, saved, fn_in, fn_out>>

\* img[y:y+h, x:x+w], line 259: the slice is clipped to the image
Slice(img, x, y, w, h) ==
    LET y1 == IF y + h < img.h THEN y + h ELSE img.h
        x1 == IF x + w < img.w THEN x + w ELSE img.w
        hh == IF y1 > y THEN y1 - y ELSE 0
        ww == IF x1 > x THEN x1 - x ELSE 0
    IN  [h |-> hh, w |-> ww,
         px |-> [p \in Pixels(hh, ww) |-> img.px[<<p[1] + y, p[2] + x>>]]]

\* lines 259-268
Crop ==
    /\ pc = "crop"
    /\ cropped' = [i \in 1 .. Len(aligned_bgr) |->
                      Slice(aligned_bgr[i], rect.x, rect.y, rect.w, rect.h)]
    /\ saved' = saved \o SaveAll("aligned_cropped", cropped')
    /\ pc' = "check"
    /\ UNCHANGED <<files, idx, sim_transforms_2x3, aligned_bgr, aligned_masks, results,
                   all_ref_indices, rect, outcome, visited, fn_in, fn_out>>

\* lines 271-277
CheckResults ==
    /\ pc = "check"
    /\ IF Len(results) = 0
       THEN Finish(Exit("NoCandidatesAligned", 2))
       ELSE Finish(Exit("Done", 0))
    /\ UNCHANGED <<files, idx, sim_transforms_2x3, aligned_bgr, aligned_masks, results,
                   all_ref_indices, rect, cropped, visited, saved, fn_in, fn_out>>

Init == InitAlign

Next ==
    \/ ValidatePaths
    \/ LoadImages
    \/ DetectReference
    \/ SkipCandidate
    \/ EstimationFailed
    \/ AlignCandidate
    \/ AfterLoop
    \/ ComputeOverlap
    \/ Crop
    \/ CheckResults

Spec == Init /\ [][Next]_vars

\* align's runs and the resolver's calls on arbitrary masks together
SpecAll == (InitAlign \/ InitOverlap) /\ [][Next \/ NextOverlap]_vars

(***************************************************************************)
(* Properties of align, checked under Spec.                                *)
(***************************************************************************)

Ended == pc = "end"

\* the run has at least two files, all of them readable images
Loaded ==
    /\ Len(files) >= 2
    /\ \A i \in 1 .. Len(files) : files[i].is_file /\ files[i].decodes

\* the reference has fewer than 8 keypoints or no descriptors
ReferenceLacksFeatures == files[1].nkp < 8 \/ files[1].desc_none

\* the candidates the loop has taken with a given result
Taken(what) == {i \in 1 .. Len(visited) : visited[i].what = what}

\* C1: if the reference yields fewer than 8 keypoints or no descriptors, the
\* run ends with the insufficient-features error before any candidate is
\* processed, and nothing is appended to the images, masks or transforms.
C1_ReferenceInvalidIsFatal ==
    (Loaded /\ ReferenceLacksFeatures) =>
        /\ visited = <<>>
        /\ aligned_bgr = <<>> /\ aligned_masks = <<>> /\ sim_transforms_2x3 = <<>>
        /\ results = <<>>
        /\ pc \in {"validate", "load", "reference", "end"}
        /\ Ended => outcome = Exit("ReferenceInvalid", 1)

C1_Witness ==
    /\ Ended /\ Loaded /\ ReferenceLacksFeatures
    /\ files[1].nkp = 7
    /\ Len(files) = 3
    /\ ~InsufficientFeatures(files[2])
    /\ outcome.state = "ReferenceInvalid"

\* every candidate has been taken by the loop, and none was aligned
EveryCandidateFailed ==
    /\ Len(visited) = Len(files) - 1
    /\ Taken("aligned") = {}

\* C2: with a valid reference, if every candidate fails the run ends in
\* NoCandidatesAligned and in no other way.
C2_AllFailIsNoCandidatesAligned ==
    (Ended /\ Loaded /\ ~ReferenceLacksFeatures /\ EveryCandidateFailed) =>
        outcome = Exit("NoCandidatesAligned", 2)

\* C3: a candidate that fails (too few keypoints, or the estimator raising)
\* adds no image, mask, transform or result, and the candidates after it are
\* still processed: the loop takes the candidates 1, 2, ... in turn, the
\* lists grow by the aligned ones alone, and the loop ends only when every
\* candidate has been taken.
C3_CandidateFailureIsNotFatal ==
    /\ \A i \in 1 .. Len(visited) : visited[i].idx = i
    /\ \A r \in 1 .. Len(results) : visited[results[r].img_path].what = "aligned"
    /\ (pc \notin {"validate", "load", "reference"} /\ outcome.state # "ReferenceInvalid"
        /\ Loaded) =>
          /\ Len(aligned_bgr) = 1 + Cardinality(Taken("aligned"))
          /\ Len(aligned_masks) = 1 + Cardinality(Taken("aligned"))
          /\ Len(sim_transforms_2x3) = 1 + Cardinality(Taken("aligned"))
          /\ Len(results) = Cardinality(Taken("aligned"))
          /\ (pc = "loop" => idx = Len(visited) + 1)
          /\ (pc # "loop" => Len(visited) = Len(files) - 1)

\* a skipped candidate and one whose estimation failed, then an aligned one
C3_Witness ==
    /\ pc = "overlap"
    /\ Len(files) = 3
    /\ visited[1].what \in {"skipped", "failed"}
    /\ visited[2].what = "aligned"
    /\ Len(aligned_bgr) = 2

\* C10 (the reachable outcomes): a run over at least two readable images
\* ends in Done, ReferenceInvalid, NoCandidatesAligned or OverlapNotFound.
C10_OnlyFourOutcomes ==
    (Ended /\ Loaded) =>
        outcome.state \in {"Done", "ReferenceInvalid", "NoCandidatesAligned", "OverlapNotFound"}

(***************************************************************************)
(* The empty overlap, checked under SpecAll: the resolver on arbitrary     *)
(* masks, and align's use of it.                                           *)
(***************************************************************************)

\* the pixel-wise AND of a non-empty mask list has no foreground pixel
NoCommonPixel(masks) ==
    /\ Len(masks) >= 1
    /\ \A p \in Pixels(masks[1].h, masks[1].w) :
          \E i \in 1 .. Len(masks) : masks[i].px[p] = 0

\* line 253 has run
OverlapTried == pc \notin {"call", "return"} /\ rect # NotComputed

\* C5: if the AND of all masks has no foreground pixel the resolver reports
\* an error for every erode setting, and align ends in OverlapNotFound
\* (exit code 3).
C5_EmptyOverlapIsFatal ==
    /\ (Returned /\ NoCommonPixel(fn_in.masks)) => ~fn_out.ok
    /\ (OverlapTried /\ NoCommonPixel(aligned_masks)) =>
          /\ \A e \in ErodeArgs : ~_common_overlap_rect(aligned_masks, e).ok
          /\ ~rect.ok
          /\ Ended /\ outcome = Exit("OverlapNotFound", 3)

C5_Witness ==
    /\ OverlapTried /\ NoCommonPixel(aligned_masks)
    /\ Len(aligned_masks) = 3
    /\ \E p \in Pixels(aligned_masks[2].h, aligned_masks[2].w) : aligned_masks[2].px[p] = 255
    /\ outcome.state = "OverlapNotFound"

(***************************************************************************)
(* The parallel lists of align and what is collected in them, checked      *)
(* under Spec.                                                             *)
(***************************************************************************)

IsAligned(v) == v.what = "aligned"

\* the loop's aligned iterations, in the order they happened
AlignedVisits == SelectSeq(visited, IsAligned)

\* the files index (from 0) of the image behind position k (from 1) of the lists
SourceIndex(k) == IF k = 1 THEN 0 ELSE AlignedVisits[k - 1].idx

h_ref == files[1].img.h
w_ref == files[1].img.w

\* C11: the aligned images, masks and transforms always have the same
\* length; position 0 holds the reference image, the identity and an
\* all-255 mask; at every other position the image and the mask are the
\* warps of one and the same input image (and of the all-255 mask of its
\* shape) by the transform stored at that position onto the reference canvas.
C11_ListsStayInSync ==
    /\ Len(aligned_bgr) = Len(aligned_masks)
    /\ Len(aligned_bgr) = Len(sim_transforms_2x3)
    /\ Len(aligned_bgr) >= 1 =>
          /\ Len(aligned_bgr) = 1 + Len(AlignedVisits)
          /\ aligned_bgr[1] = files[1].img
          /\ sim_transforms_2x3[1] = Identity
          /\ aligned_masks[1] = Full(h_ref, w_ref, 255)
          /\ \A k \in 2 .. Len(aligned_bgr) :
                LET src == files[SourceIndex(k) + 1].img
                    M   == sim_transforms_2x3[k]
                IN  /\ aligned_bgr[k] = warpLinear(src, M, w_ref, h_ref)
                    /\ aligned_masks[k] =
                          warpNearest(Full(src.h, src.w, 255), M, w_ref, h_ref)

\* two candidates aligned with different transforms, the overlap about to
\* be computed, and a mask that the transform has moved
C11_Witness ==
    /\ pc = "overlap"
    /\ Len(aligned_bgr) = 3
    /\ sim_transforms_2x3[2] # sim_transforms_2x3[3]
    /\ sim_transforms_2x3[2] # Identity
    /\ aligned_masks[2] # Full(h_ref, w_ref, 255)
    /\ files[2] # files[3]

\* the files written under one name, in the order they were written
SavedAs(name) == SelectSeq(saved, LAMBDA f : f.name = name)

\* C12: the results, and with them the images, masks and transforms, are in
\* strictly increasing image-index order with the reference first, whatever
\* was skipped; the file aligned_NNN holds the image at position NNN of that
\* order and aligned_cropped_NNN the crop of that same image.
C12_CollectedInIndexOrder ==
    /\ Len(results) = Len(AlignedVisits)
    /\ \A r \in 1 .. Len(results) : results[r].img_path = AlignedVisits[r].idx
    /\ \A r \in 1 .. Len(results) - 1 : results[r].img_path < results[r + 1].img_path
    /\ \A r \in 1 .. Len(results) : results[r].img_path > 0
    /\ \A name \in {"aligned", "aligned_cropped"} :
          Len(SavedAs(name)) \in {0, Len(aligned_bgr)}
    /\ \A j \in 1 .. Len(SavedAs("aligned")) :
          /\ SavedAs("aligned")[j].n = j - 1
          /\ SavedAs("aligned")[j].img = aligned_bgr[j]
          /\ SavedAs("aligned")[j].img =
                IF j = 1 THEN files[1].img
                ELSE warpLinear(files[results[j - 1].img_path + 1].img,
                                sim_transforms_2x3[j], w_ref, h_ref)
    /\ \A j \in 1 .. Len(SavedAs("aligned_cropped")) :
          /\ SavedAs("aligned_cropped")[j].n = j - 1
          /\ SavedAs("aligned_cropped")[j].img = cropped[j]
          /\ cropped[j] = Slice(aligned_bgr[j], rect.x, rect.y, rect.w, rect.h)

\* the first candidate not aligned, a later one aligned, everything saved
C12_Witness ==
    /\ pc = "end"
    /\ Len(files) >= 3
    /\ Len(visited) >= 2
    /\ visited[1].what # "aligned"
    /\ Len(results) >= 1
    /\ results[1].img_path >= 2
    /\ Len(SavedAs("aligned")) = Len(aligned_bgr)
    /\ Len(SavedAs("aligned_cropped")) = Len(aligned_bgr)

\* the loop has taken every candidate
LoopDone == Len(files) >= 2 /\ Len(visited) = Len(files) - 1

C16_MasksBinaryOnReferenceCanvas ==
    /\ \A i \in 1 .. Len(aligned_masks) :
          /\ aligned_masks[i].h = h_ref
          /\ aligned_masks[i].w = w_ref
          /\ DOMAIN aligned_masks[i].px = Pixels(h_ref, w_ref)
          /\ \A p \in Pixels(h_ref, w_ref) : aligned_masks[i].px[p] \in {0, 255}
    /\ Len(aligned_masks) >= 1 =>
          \A p \in Pixels(h_ref, w_ref) : aligned_masks[1].px[p] = 255

\* a candidate of another shape than the reference, moved by half a pixel,
\* whose mask has valid and invalid pixels when the resolver is called
C16_Witness ==
    /\ pc = "overlap"
    /\ Len(aligned_masks) >= 2
    /\ files[2].img.w # w_ref
    /\ sim_transforms_2x3[2].tx2 = 1
    /\ \E p, q \in Pixels(h_ref, w_ref) :
          aligned_masks[2].px[p] = 0 /\ aligned_masks[2].px[q] = 255

\* C19: cropped images exist, and cropped files are written, only once the
\* overlap has been computed successfully and at least one candidate has
\* been aligned on a valid reference; a run that has them ends in Done,
\* and a run that ends in any other state has none.
C19_NoCropInFatalRun ==
    /\ (pc = "crop" \/ cropped # <<>> \/ SavedAs("aligned_cropped") # <<>>) =>
          /\ rect.ok
          /\ Taken("aligned") # {}
          /\ Len(results) >= 1
          /\ ~ReferenceLacksFeatures
          /\ outcome \in {Running, Exit("Done", 0)}
    /\ (Ended /\ outcome # Exit("Done", 0)) =>
          (cropped = <<>> /\ SavedAs("aligned_cropped") = <<>>)

\* a run that cropped and ended well after one candidate had failed
C19_Witness ==
    /\ Ended
    /\ outcome = Exit("Done", 0)
    /\ Len(cropped) = 2
    /\ Len(files) = 3
    /\ SavedAs("aligned_cropped") # <<>>

(***************************************************************************)
(* The component the resolver keeps, checked under SpecOverlap.            *)
(***************************************************************************)

\* the foreground of the combined and eroded mask of a call
Foreground ==
    LET common == ErodeStep(AndAll(fn_in.masks[1], fn_in.masks, 2), fn_in.erode)
    IN  {p \in Pixels(common.h, common.w) : common.px[p] > 0}

RECURSIVE Components(_)
\* the 8-connected components of a pixel set, as a set
Components(fg) ==
    IF fg = {} THEN {}
    ELSE LET c == Flood({CHOOSE p \in fg : TRUE}, fg)
         IN  {c} \cup Components(fg \ c)

\* raster order: by row, then by column
RasterBefore(p, q) == p[1] < q[1] \/ (p[1] = q[1] /\ p[2] < q[2])

\* c is labelled before d: its first pixel comes first in raster order
LabelledBefore(c, d) == RasterBefore(RasterFirst(c), RasterFirst(d))

\* the rectangle is exactly the bounding box of the pixel set c
BoxOf(r, c) ==
    /\ r.x = SetMin({p[2] : p \in c})
    /\ r.y = SetMin({p[1] : p \in c})
    /\ r.x + r.w - 1 = SetMax({p[2] : p \in c})
    /\ r.y + r.h - 1 = SetMax({p[1] : p \in c})

\* the component kept: none is larger, and none as large is labelled before it
Kept(c, comps) ==
    \A d \in comps :
        /\ Cardinality(d) <= Cardinality(c)
        /\ (Cardinality(d) = Cardinality(c) /\ d # c) => LabelledBefore(c, d)

\* C15: when the combined, eroded mask has several components the rectangle
\* returned is the bounding box of a single component that is at least as
\* large as every other one, the lowest-labelled such one on a tie.
C15_LargestComponentOnly ==
    (Returned /\ Len(fn_in.masks) >= 1) =>
        LET comps == Components(Foreground)
        IN  Cardinality(comps) >= 2 =>
                /\ fn_out.ok
                /\ \E c \in comps : Kept(c, comps) /\ BoxOf(fn_out, c)

\* three components, the largest labelled after a smaller one, and a
\* rectangle smaller than the bounding box of the whole foreground
C15_Witness ==
    /\ Returned /\ Len(fn_in.masks) >= 2
    /\ fn_out.ok
    /\ LET fg    == Foreground
           comps == Components(fg)
       IN  /\ Cardinality(comps) >= 3
           /\ \E c \in comps :
                 /\ Kept(c, comps) /\ BoxOf(fn_out, c)
                 /\ \E d \in comps : LabelledBefore(d, c) /\ Cardinality(d) < Cardinality(c)
           /\ ~BoxOf(fn_out, fg)

(***************************************************************************)
(* The rectangle and the crop, checked under SpecAll.                      *)
(***************************************************************************)

\* r is a non-degenerate rectangle inside a W x H canvas
InsideCanvas(r, W, H) ==
    /\ r.w >= 1 /\ r.h >= 1
    /\ r.x >= 0 /\ r.y >= 0
    /\ r.x + r.w <= W
    /\ r.y + r.h <= H

\* C18: a rectangle returned by the resolver for W x H masks has w >= 1,
\* h >= 1, x >= 0, y >= 0, x + w <= W and y + h <= H, and every image align
\* crops with its rectangle has exactly w x h pixels.
C18_RectInsideCanvas ==
    /\ (Returned /\ fn_out.ok) =>
          InsideCanvas(fn_out, fn_in.masks[1].w, fn_in.masks[1].h)
    /\ (OverlapTried /\ rect.ok) => InsideCanvas(rect, w_ref, h_ref)
    /\ \A i \in 1 .. Len(cropped) :
          /\ cropped[i].w = rect.w /\ cropped[i].h = rect.h
          /\ DOMAIN cropped[i].px = Pixels(rect.h, rect.w)
          /\ Cardinality(DOMAIN cropped[i].px) = rect.w * rect.h

\* a rectangle away from the canvas's top left corner that reaches its right edge
C18_Witness ==
    /\ Returned /\ fn_out.ok
    /\ fn_out.x >= 1
    /\ fn_out.y >= 1
    /\ fn_out.x + fn_out.w = fn_in.masks[1].w

====
